---- MODULE Spec2Model ----
(***************************************************************************)
(* Dependency extraction of retro_data_structures:                         *)
(*   formats/dependency_cheating.py  (structured decoders, the heuristic   *)
(*                                    scanner _cheat and the dispatcher    *)
(*                                    get_cheated_dependencies)            *)
(*   formats/ancs.py                 (ANCS layout and its dependencies)    *)
(*   disc/game_disc.py               (the file tree of a disc)             *)
(*                                                                         *)
(* Conventions.                                                            *)
(*  - A byte string is a sequence of 0..255; offsets are 0-based as in the *)
(*    source, so the byte at offset i of s is s[i + 1].                    *)
(*  - An unsigned big-endian integer read from bytes is kept as its        *)
(*    base-256 digits without leading zeros (<<>> is 0, <<1, 2>> is 258):  *)
(*    a 64-bit identifier does not fit the checker's integers, and two     *)
(*    unsigned integers are equal exactly when these digit strings are.    *)
(*    Num turns such a value into a number where the source uses it as a   *)
(*    count, a size or a version.                                          *)
(*  - A generator is run to exhaustion; its result is the records it       *)
(*    yielded, the catalog calls it made, and the exception that ended it  *)
(*    ("none" when it returned).                                           *)
(***************************************************************************)
EXTENDS Integers, Sequences, FiniteSets, TLC

VARIABLES
    asset,        \* RawResource: [type, data]
    game,         \* asset_manager.target_game
    is_mlvl,      \* the is_mlvl argument
    hier,         \* what Hier.parse(...).dependencies_for does (DUMB only)
    pc,           \* position inside get_cheated_dependencies
    path,         \* the positions visited so far
    out,          \* records yielded to the caller so far
    calls,        \* catalog calls made so far
    probes,       \* byte offsets _cheat unpacked a candidate from
    err,          \* exception surfaced to the caller ("none" if none)
    structExc,    \* exception that ended the structured decoder
    fromStruct,   \* how many records of out the structured decoder yielded
    nStructured,  \* invocations of a structured decoder
    nHeuristic,   \* invocations of _cheat
    ancs,         \* an Ancs resource: [pc, data, raw (the parsed ANCS), the
                  \* is_player_actor argument, none_raises (what the catalog
                  \* does when asked for None), op (the method run), and the
                  \* method's out, calls, visited characters and err]
    disc          \* a GameDisc being built: [pc, fst (names, file_entries),
                  \* i (the loop index of decode_into_file_tree), dicts (the
                  \* dict objects made so far), current_dir, end_folder,
                  \* files (what files() returned) and err]

cheatVars == <<asset, game, is_mlvl, hier, pc, path, out, calls, probes, err,
               structExc, fromStruct, nStructured, nHeuristic>>

vars == <<cheatVars, ancs, disc>>

----------------------------------------------------------------------------
(* Bounds of the explored inputs *)

MaxPad == 6
MaxTail == 4
MaxDeps == 2

\* an ANCS asset holds up to MaxChars characters
MaxChars == 6

\* a file-system table holds up to MaxEntries entries, the root included
MaxEntries == 5

----------------------------------------------------------------------------
(* Bytes and integers *)

RECURSIVE StripZeros(_)
StripZeros(d) ==
    IF d = <<>> THEN <<>>
    ELSE IF d[1] = 0 THEN StripZeros(Tail(d))
    ELSE d

\* struct.unpack_from(">L" / ">Q", stream, offset) and construct's IntNub
UnpackBE(stream, off, w) == StripZeros(SubSeq(stream, off + 1, off + w))

Huge == 256 * 256 * 256

\* the number a digit string stands for; values of 2^24 and more, which
\* exceed every modelled buffer, are all read as Huge
Num(d) ==
    IF Len(d) = 0 THEN 0
    ELSE IF Len(d) = 1 THEN d[1]
    ELSE IF Len(d) = 2 THEN d[1] * 256 + d[2]
    ELSE IF Len(d) = 3 THEN (d[1] * 256 + d[2]) * 256 + d[3]
    ELSE Huge

\* big-endian encoding of a small number on w bytes (builds inputs)
RECURSIVE Zeros(_)
Zeros(n) == IF n <= 0 THEN <<>> ELSE <<0>> \o Zeros(n - 1)

U32(n) == <<0, (n \div 65536) % 256, (n \div 256) % 256, n % 256>>

U16(n) == <<(n \div 256) % 256, n % 256>>

----------------------------------------------------------------------------
(* Target games *)

Games == {"PRIME", "ECHOES", "CORRUPTION"}

\* Game.uses_asset_id_32
UsesAssetId32(g) == g \in {"PRIME", "ECHOES"}

\* Game >= Game.CORRUPTION
AtLeastCorruption(g) == g = "CORRUPTION"

----------------------------------------------------------------------------
(* The catalog (asset manager) *)

\* an absent optional field (None)
None == <<0 - 1>>

\* identifiers 16 * i + k written into character i of an ANCS asset are
\* catalogued, but for k = 13
CharacterAssetType(k) ==
    CASE k \in {1, 7} -> "CMDL"
      [] k \in {2, 8} -> "CSKR"
      [] k = 3 -> "CINF"
      [] k = 4 -> "PART"
      [] k = 5 -> "ELSC"
      [] k = 6 -> "SPSC"
      [] k = 9 -> "CSPP"
      [] k = 10 -> "SWHC"
      [] OTHER -> "ANIM"

KnownAssets ==
    (<<1>> :> "TXTR") @@ (<<2>> :> "STRG") @@ (<<1, 0>> :> "AGSC") @@
    (<<1, 1>> :> "PART") @@ (<<1, 0, 1>> :> "CMDL") @@ (<<3>> :> "CSKR") @@
    (<<4>> :> "CINF") @@ (<<5>> :> "ANIM") @@ (<<6>> :> "EVNT") @@
    (<<7>> :> "SWHC") @@ (<<8>> :> "ELSC") @@ (<<9>> :> "CSPP") @@
    [d \in {<<n>> : n \in {m \in 16..255 : m % 16 # 13}} |-> CharacterAssetType(d[1] % 16)]

Call(id, mlvl, neok) == [id |-> id, is_mlvl |-> mlvl, not_exist_ok |-> neok]

\* asset_manager.get_dependencies_for_asset(id, is_mlvl, not_exist_ok)
GetDependenciesForAsset(id, mlvl, neok) ==
    IF id \in DOMAIN KnownAssets
    THEN [exc |-> "none", recs |-> << <<KnownAssets[id], id>> >>]
    ELSE IF neok THEN [exc |-> "none", recs |-> <<>>]
    ELSE [exc |-> "UnknownAssetId", recs |-> <<>>]

----------------------------------------------------------------------------
(* The heuristic scanner *)

AssetIdSize(g) == IF UsesAssetId32(g) THEN 4 ELSE 8

\* the concatenation ss[lo] \o ... \o ss[hi], by halves
RECURSIVE ConcatRange(_, _, _)
ConcatRange(ss, lo, hi) ==
    IF lo > hi THEN <<>>
    ELSE IF lo = hi THEN ss[lo]
    ELSE ConcatRange(ss, lo, (lo + hi) \div 2)
         \o ConcatRange(ss, (lo + hi) \div 2 + 1, hi)

\* range(n) as the sequence 0, 1, ..., n - 1 (empty when n <= 0)
Range(n) == [k \in 1..n |-> k - 1]

\* one turn of the loop: the candidate at offset i is unpacked and handed to
\* the catalog with not_exist_ok=True
CheatProbe(stream, w, mlvl, i) ==
    [call |-> Call(UnpackBE(stream, i, w), mlvl, TRUE),
     recs |-> GetDependenciesForAsset(UnpackBE(stream, i, w), mlvl, TRUE).recs]

\* `for i in range(max_byte)`: the turns in order
CheatLoop(stream, w, mlvl, offsets) ==
    [recs   |-> ConcatRange([k \in 1..Len(offsets) |->
                                CheatProbe(stream, w, mlvl, offsets[k]).recs],
                            1, Len(offsets)),
     calls  |-> [k \in 1..Len(offsets) |-> CheatProbe(stream, w, mlvl, offsets[k]).call],
     probes |-> offsets,
     exc    |-> "none"]

Cheat(stream, g, mlvl) ==
    CheatLoop(stream, AssetIdSize(g), mlvl, Range(Len(stream) - AssetIdSize(g)))

----------------------------------------------------------------------------
(* Layout primitives (construct).  A parse threads a cursor state           *)
(* [ok, pos, val] through the fields of a layout: ok is FALSE once a field  *)
(* could not be read (construct raises), pos is the stream position and val *)
(* collects the values read so far.                                         *)

Fail == [ok |-> FALSE, pos |-> 0, val |-> <<>>]

Ok(pos, val) == [ok |-> TRUE, pos |-> pos, val |-> val]

At(pos) == Ok(pos, <<>>)

\* construct.Int32ub / AssetId32 / Float32b: four bytes at the cursor
ThenInt32ub(s, st) ==
    IF st.ok /\ st.pos + 4 <= Len(s)
    THEN Ok(st.pos + 4, Append(st.val, UnpackBE(s, st.pos, 4)))
    ELSE Fail

\* construct.Int16ub
ThenInt16ub(s, st) ==
    IF st.ok /\ st.pos + 2 <= Len(s)
    THEN Ok(st.pos + 2, Append(st.val, UnpackBE(s, st.pos, 2)))
    ELSE Fail

\* offset of the first zero byte at or after pos, -1 if there is none
RECURSIVE FindNull(_, _)
FindNull(s, pos) ==
    IF pos >= Len(s) THEN 0 - 1
    ELSE IF s[pos + 1] = 0 THEN pos
    ELSE FindNull(s, pos + 1)

AfterNull(st, z) == IF z < 0 THEN Fail ELSE Ok(z + 1, st.val)

\* common_types.String, a null-terminated string, read and dropped
ThenString(s, st) == IF st.ok THEN AfterNull(st, FindNull(s, st.pos)) ELSE Fail

\* construct.Seek(n, 1): the cursor moves n bytes on, past the end if need be
ThenSkip(st, n) == IF st.ok THEN Ok(st.pos + n, st.val) ELSE Fail

\* construct.Array(n, Int32ub)
RECURSIVE ThenArrayInt32ub(_, _, _)
ThenArrayInt32ub(s, st, n) ==
    IF ~st.ok \/ n <= 0 THEN st
    ELSE ThenArrayInt32ub(s, ThenInt32ub(s, st), n - 1)

\* the count a PrefixedArray has just read: the last value of st, taken off
Count(st) == IF st.ok THEN Num(st.val[Len(st.val)]) ELSE 0

DropCount(st) == IF st.ok THEN Ok(st.pos, SubSeq(st.val, 1, Len(st.val) - 1)) ELSE Fail

ArrayOfCount(s, c) == ThenArrayInt32ub(s, DropCount(c), Count(c))

\* construct.PrefixedArray(Int32ub, Int32ub)
ThenPrefixedArrayInt32ub(s, st) == ArrayOfCount(s, ThenInt32ub(s, st))

----------------------------------------------------------------------------
(* Running a decoder's yields *)

Dep(id) == [kind |-> "dep", type |-> "", id |-> id]

Rec(type, id) == [kind |-> "rec", type |-> type, id |-> id]

RECURSIVE DepsOf(_)
DepsOf(ids) == IF ids = <<>> THEN <<>> ELSE <<Dep(Head(ids))>> \o DepsOf(Tail(ids))

Raised(exc) == [recs |-> <<>>, calls |-> <<>>, exc |-> exc]

\* the yields of a decoder in order: `yield from
\* asset_manager.get_dependencies_for_asset(id, is_mlvl)` for a "dep" item,
\* `yield type, id` for a "rec" item; the first exception ends the run
RECURSIVE RunItems(_, _)
RunItems(items, mlvl) ==
    IF items = <<>> THEN Raised("none")
    ELSE LET it == Head(items)
         IN  IF it.kind = "rec"
             THEN LET rest == RunItems(Tail(items), mlvl)
                  IN  [recs  |-> << <<it.type, it.id>> >> \o rest.recs,
                       calls |-> rest.calls,
                       exc   |-> rest.exc]
             ELSE LET got == GetDependenciesForAsset(it.id, mlvl, FALSE)
                  IN  IF got.exc # "none"
                      THEN [recs  |-> <<>>,
                            calls |-> <<Call(it.id, mlvl, FALSE)>>,
                            exc   |-> got.exc]
                      ELSE LET rest == RunItems(Tail(items), mlvl)
                           IN  [recs  |-> got.recs \o rest.recs,
                                calls |-> <<Call(it.id, mlvl, FALSE)>> \o rest.calls,
                                exc   |-> rest.exc]

----------------------------------------------------------------------------
(* CSNG *)

CsngCheck(magic) == IF magic.ok /\ magic.val = << <<2>> >> THEN At(12) ELSE Fail

\* _csng: Const(2, Int32ub), Seek(0xC), "agsc_id" / Int32ub
CsngParse(s) == ThenInt32ub(s, CsngCheck(ThenInt32ub(s, At(0))))

\* csng_dependencies hands the RawResource itself, a (type, data) tuple and
\* no byte string, to _csng.parse: building the stream raises TypeError
\* before a byte is read
CsngDependencies(a, g, mlvl) == Raised("TypeError")

----------------------------------------------------------------------------
(* FRME *)

\* _frme: Int32ub, "deps" / PrefixedArray(Int32ub, Int32ub)
FrmeParse(s) == ThenPrefixedArrayInt32ub(s, ThenSkip(ThenInt32ub(s, At(0)), 0))

FrmeDeps(deps) == IF deps.ok THEN SubSeq(deps.val, 2, Len(deps.val)) ELSE <<>>

Resolve(parsed, ids, mlvl) ==
    IF ~parsed.ok THEN Raised("ConstructError") ELSE RunItems(DepsOf(ids), mlvl)

UnknownToUnable(r) ==
    IF r.exc = "UnknownAssetId" THEN [r EXCEPT !.exc = "UnableToCheatError"] ELSE r

FrmeDependencies(a, g, mlvl) ==
    UnknownToUnable(Resolve(FrmeParse(a.data), FrmeDeps(FrmeParse(a.data)), mlvl))

----------------------------------------------------------------------------
(* RULE and FONT *)

\* _rule: Pointer(0x5, Int32ub)
RuleParse(s) == ThenInt32ub(s, At(5))

RuleDependencies(a, g, mlvl) ==
    Resolve(RuleParse(a.data), RuleParse(a.data).val, mlvl)

\* _font: Seek(0x22), String, "txtr" / Int32ub
FontParse(s) == ThenInt32ub(s, ThenString(s, At(34)))

FontDependencies(a, g, mlvl) ==
    Resolve(FontParse(a.data), FontParse(a.data).val, mlvl)

----------------------------------------------------------------------------
(* HINT *)

HintMagic == <<186, 219, 173>>   \* 0x00BADBAD

AppendLocation(st, f) ==
    IF ~f.ok THEN Fail
    ELSE Ok(f.pos, Append(st.val, [mlvl |-> f.val[1], mrea |-> f.val[2],
                                   index |-> f.val[3], map_text_strg |-> f.val[4]]))

\* the elements of "locations": mlvl, mrea, index, map_text_strg
RECURSIVE HintLocations(_, _, _)
HintLocations(s, st, n) ==
    IF ~st.ok \/ n <= 0 THEN st
    ELSE HintLocations(s, AppendLocation(st, ThenArrayInt32ub(s, At(st.pos), 4)), n - 1)

AppendHint(st, f, locs) ==
    IF ~f.ok \/ ~locs.ok THEN Fail
    ELSE Ok(locs.pos, Append(st.val, [popup_strg |-> f.val[3], locations |-> locs.val]))

\* f: name, immediate_time, normal_time, popup_strg, text_time and the
\* count of locations have been read
HintEntryLocations(s, st, f) ==
    AppendHint(st, f, HintLocations(s, At(IF f.ok THEN f.pos ELSE 0), Count(f)))

\* one element of "hints", appended to st.val
HintEntry(s, st) ==
    HintEntryLocations(s, st, ThenArrayInt32ub(s, ThenString(s, At(st.pos)), 5))

RECURSIVE HintEntries(_, _, _)
HintEntries(s, st, n) ==
    IF ~st.ok \/ n <= 0 THEN st
    ELSE HintEntries(s, HintEntry(s, st), n - 1)

\* h: the constant, "version" and the count of hints have been read
HintBody(s, h) ==
    IF h.ok /\ h.val[1] = HintMagic THEN HintEntries(s, At(h.pos), Count(h)) ELSE Fail

\* _hint; val is the hints
HintParse(s) == HintBody(s, ThenArrayInt32ub(s, At(0), 3))

RECURSIVE HintLocItems(_, _)
HintLocItems(locs, mlvl) ==
    IF locs = <<>> THEN <<>>
    ELSE <<Dep(Head(locs).map_text_strg)>>
         \o (IF ~mlvl
             THEN <<Rec("MLVL", Head(locs).mlvl), Rec("MREA", Head(locs).mrea)>>
             ELSE <<>>)
         \o HintLocItems(Tail(locs), mlvl)

RECURSIVE HintItems(_, _)
HintItems(hints, mlvl) ==
    IF hints = <<>> THEN <<>>
    ELSE <<Dep(Head(hints).popup_strg)>> \o HintLocItems(Head(hints).locations, mlvl)
         \o HintItems(Tail(hints), mlvl)

HintRun(hint, mlvl) ==
    IF ~hint.ok THEN Raised("ConstructError")
    ELSE RunItems(HintItems(hint.val, mlvl), mlvl)

HintDependencies(a, g, mlvl) == HintRun(HintParse(a.data), mlvl)

----------------------------------------------------------------------------
(* FSM2 *)

Fsm2Magic == <<70, 83, 77, 50>>   \* b"FSM2"

\* Array(n, Sequence(String, Seek(0x4, 1)))
RECURSIVE Fsm2Names(_, _, _)
Fsm2Names(s, st, n) ==
    IF ~st.ok \/ n <= 0 THEN st
    ELSE Fsm2Names(s, ThenSkip(ThenString(s, st), 4), n - 1)

Fsm2NamesOfCount(s, c) == Fsm2Names(s, DropCount(c), Count(c))

\* PrefixedArray(Int32ub, Sequence(String, Seek(0x4, 1)))
Fsm2PrefixedNames(s, st) == Fsm2NamesOfCount(s, ThenInt32ub(s, st))

\* If(version >= 2, Seek(0x10, 1))
Fsm2VersionSkip(st, version) == ThenSkip(st, IF version >= 2 THEN 16 ELSE 0)

\* one element of "states" and of "unk2"
Fsm2State(s, st, version) ==
    Fsm2PrefixedNames(s, Fsm2VersionSkip(ThenString(s, st), version))

\* one element of "unk1"
Fsm2Unk1(s, st, version) ==
    ThenSkip(Fsm2PrefixedNames(s, ThenSkip(Fsm2VersionSkip(ThenString(s, st), version), 4)), 1)

\* one element of "unk3"; its "dep" is appended to st.val
Fsm2Unk3(s, st, version) ==
    ThenInt32ub(s, Fsm2PrefixedNames(s, Fsm2VersionSkip(ThenString(s, st), version)))

Fsm2Entry(s, st, version, kind) ==
    CASE kind = "unk1" -> Fsm2Unk1(s, st, version)
      [] kind = "unk3" -> Fsm2Unk3(s, st, version)
      [] OTHER -> Fsm2State(s, st, version)

RECURSIVE Fsm2Entries(_, _, _, _, _)
Fsm2Entries(s, st, version, kind, n) ==
    IF ~st.ok \/ n <= 0 THEN st
    ELSE Fsm2Entries(s, Fsm2Entry(s, st, version, kind), version, kind, n - 1)

\* h: "version", "num_states", "num_unk1", "num_unk2", "num_unk3" have been read
Fsm2Body(s, h) ==
    IF ~h.ok THEN Fail
    ELSE Fsm2Entries(s,
           Fsm2Entries(s,
             Fsm2Entries(s,
               Fsm2Entries(s, At(h.pos), Num(h.val[1]), "states", Num(h.val[2])),
               Num(h.val[1]), "unk1", Num(h.val[3])),
             Num(h.val[1]), "states", Num(h.val[4])),
           Num(h.val[1]), "unk3", Num(h.val[5]))

Fsm2Header(s) ==
    IF Len(s) >= 4 /\ SubSeq(s, 1, 4) = Fsm2Magic THEN ThenArrayInt32ub(s, At(4), 5)
    ELSE Fail

\* _fsm2; val is the "dep" of every "unk3" element
Fsm2Parse(s) == Fsm2Body(s, Fsm2Header(s))

Fsm2Dependencies(a, g, mlvl) ==
    Resolve(Fsm2Parse(a.data), Fsm2Parse(a.data).val, mlvl)

----------------------------------------------------------------------------
(* CMDL *)

Parsed(exc, val) == [exc |-> exc, val |-> val]

\* AlignTo(32): the padding up to the next multiple of 32 is read
AlignTo32(s, pos) ==
    IF ((pos + 31) \div 32) * 32 <= Len(s) THEN At(((pos + 31) \div 32) * 32) ELSE Fail

CmdlAppendSet(acc, ids, size) ==
    IF ~ids.ok THEN Parsed("ConstructError", <<>>)
    ELSE [exc |-> "none", pos |-> acc.pos + size, val |-> acc.val \o ids.val]

\* DataSection(PrefixedArray(Int32ub, AssetId32), size): the section is the
\* next `size` bytes and its content is parsed from their start
CmdlSection(s, acc, size) ==
    IF acc.pos + size > Len(s) THEN Parsed("ConstructError", <<>>)
    ELSE CmdlAppendSet(acc,
                       ThenPrefixedArrayInt32ub(SubSeq(s, acc.pos + 1, acc.pos + size), At(0)),
                       size)

\* Array(material_set_count, DataSection(..., size = data_section_sizes[_index]))
\* from element `index` on
RECURSIVE CmdlMaterialSets(_, _, _, _, _)
CmdlMaterialSets(s, acc, sizes, index, count) ==
    IF acc.exc # "none" \/ index >= count THEN acc
    ELSE IF index >= Len(sizes) THEN Parsed("IndexError", <<>>)
    ELSE CmdlMaterialSets(s, CmdlSection(s, acc, Num(sizes[index + 1])), sizes,
                          index + 1, count)

CmdlSets(s, al, sizes, count) ==
    IF ~al.ok THEN Parsed("ConstructError", <<>>)
    ELSE CmdlMaterialSets(s, [exc |-> "none", pos |-> al.pos, val |-> <<>>],
                          sizes, 0, count)

\* sizes: "data_section_sizes" has been read
CmdlAligned(s, sizes, count) ==
    IF ~sizes.ok THEN Parsed("ConstructError", <<>>)
    ELSE CmdlSets(s, AlignTo32(s, sizes.pos), sizes.val, count)

\* c: "data_section_count" and "material_set_count" have been read
CmdlBody(s, c) ==
    IF ~c.ok THEN Parsed("ConstructError", <<>>)
    ELSE CmdlAligned(s, ThenArrayInt32ub(s, At(c.pos), Num(c.val[1])), Num(c.val[2]))

\* _cmdl; val is every txtr_id of every material set, in order
CmdlParse(s) ==
    IF Len(s) < 36 THEN Parsed("ConstructError", <<>>)
    ELSE CmdlBody(s, ThenArrayInt32ub(s, At(36), 2))

CmdlRun(decoded, mlvl) ==
    IF decoded.exc # "none" THEN Raised(decoded.exc)
    ELSE RunItems(DepsOf(decoded.val), mlvl)

CmdlDependencies(a, g, mlvl) ==
    IF AtLeastCorruption(g) THEN Raised("UnableToCheatError")
    ELSE CmdlRun(CmdlParse(a.data), mlvl)

----------------------------------------------------------------------------
(* DUMB *)

\* dumb_dependencies: Hier.parse and hier.dependencies_for are described by
\* `hier`: the parse fails, or the object resolves hier.ids in order
DumbDependencies(a, g, mlvl) ==
    IF ~hier.ok THEN Raised("ConstructError")
    ELSE RunItems(DepsOf(hier.ids), mlvl)

----------------------------------------------------------------------------
(* ANCS: layout *)

\* game_check.is_prime1 / is_prime2
IsPrime1(g) == g = "PRIME"

IsPrime2(g) == g = "ECHOES"

\* n bytes are read and dropped (Bytes(n), a Float32b or an integer that the
\* dependencies do not use)
ThenBytes(s, st, n) ==
    IF st.ok /\ st.pos + n <= Len(s) THEN Ok(st.pos + n, st.val) ELSE Fail

Present(items) == [present |-> TRUE, items |-> items]

Absent == [present |-> FALSE, items |-> <<>>]

\* the field parsed by `inner` from the cursor of st, appended to st.val as
\* one value
AppendField(st, inner) ==
    IF st.ok /\ inner.ok THEN Ok(inner.pos, Append(st.val, Present(inner.val))) ELSE Fail

AppendAbsent(st) == IF st.ok THEN Ok(st.pos, Append(st.val, Absent)) ELSE Fail

AppendNone(st) == IF st.ok THEN Ok(st.pos, Append(st.val, None)) ELSE Fail

AppendPos(st) == IF st.ok THEN Ok(st.pos, Append(st.val, st.pos)) ELSE Fail

Cursor(st) == At(IF st.ok THEN st.pos ELSE 0)

\* PrefixedArray(Int32ub, ConstructAssetId) as one value of st.val
ThenIdList(s, st) == AppendField(st, ThenPrefixedArrayInt32ub(s, Cursor(st)))

\* the "version" of the Character being read (its second field)
AtLeastVersion(st, n) == st.ok /\ Num(st.val[2]) >= n

\* WithVersion(n, ConstructAssetId): None below version n
ThenVersionedId(s, st, n) ==
    IF AtLeastVersion(st, n) THEN ThenInt32ub(s, st) ELSE AppendNone(st)

\* WithVersion(n, PrefixedArray(Int32ub, ConstructAssetId))
ThenVersionedIdList(s, st, n) ==
    IF AtLeastVersion(st, n) THEN ThenIdList(s, st) ELSE AppendAbsent(st)

\* WithVersion(n, <k bytes>)
ThenVersionedBytes(s, st, n, k) ==
    IF AtLeastVersion(st, n) THEN ThenBytes(s, st, k) ELSE ThenSkip(st, 0)

\* AnimationName: animation_id, BeforeVersion(10, String), name
AnimationName(s, st, old) ==
    ThenString(s, IF old THEN ThenString(s, ThenBytes(s, st, 4)) ELSE ThenBytes(s, st, 4))

RECURSIVE AnimationNames(_, _, _, _)
AnimationNames(s, st, old, n) ==
    IF ~st.ok \/ n <= 0 THEN st
    ELSE AnimationNames(s, AnimationName(s, st, old), old, n - 1)

AnimationNamesOfCount(s, c, old) == AnimationNames(s, DropCount(c), old, Count(c))

\* animation_names=PrefixedArray(Int32ub, AnimationName)
ThenAnimationNames(s, st) ==
    AnimationNamesOfCount(s, ThenInt32ub(s, st), ~AtLeastVersion(st, 10))

PasMagic == <<80, 65, 83, 52>>   \* b"PAS4"

\* PASDatabase with no animation state: the magic, a zero count and the
\* default state
ThenPasDatabase(s, st) ==
    IF st.ok /\ st.pos + 8 <= Len(s)
       /\ SubSeq(s, st.pos + 1, st.pos + 4) = PasMagic
       /\ UnpackBE(s, st.pos + 4, 4) = <<>>
    THEN ThenBytes(s, st, 12)
    ELSE Fail

\* ParticleResourceData
ThenParticleResourceData(s, st) ==
    ThenVersionedIdList(s,
        ThenIdList(s, ThenVersionedBytes(s, ThenIdList(s, ThenIdList(s, st)), 6, 4)),
        10)

\* Array(n, <String, then k bytes>): AnimationAABB is a name and an AABox
RECURSIVE NamedBlocks(_, _, _, _)
NamedBlocks(s, st, k, n) ==
    IF ~st.ok \/ n <= 0 THEN st
    ELSE NamedBlocks(s, ThenBytes(s, ThenString(s, st), k), k, n - 1)

NamedBlocksOfCount(s, c, k) == NamedBlocks(s, DropCount(c), k, Count(c))

\* Array(n, <k bytes>)
RECURSIVE Blocks(_, _, _, _)
Blocks(s, st, k, n) ==
    IF ~st.ok \/ n <= 0 THEN st
    ELSE Blocks(s, ThenBytes(s, st, k), k, n - 1)

BlocksOfCount(s, c, k) == Blocks(s, DropCount(c), k, Count(c))

\* PrefixedArray(Int32ub, <k bytes>)
ThenPrefixedBlocks(s, st, k) == BlocksOfCount(s, ThenInt32ub(s, st), k)

\* EffectComponent: name, particle (ObjectTag_32), bone_name (Prime 1) or
\* bone_id (Prime 2), scale, parented_mode, flags
EffectComponent(s, st, g) ==
    ThenBytes(s,
        IF IsPrime1(g) THEN ThenString(s, ThenBytes(s, ThenString(s, st), 8))
        ELSE IF IsPrime2(g) THEN ThenBytes(s, ThenBytes(s, ThenString(s, st), 8), 4)
        ELSE ThenBytes(s, ThenString(s, st), 8),
        12)

RECURSIVE EffectComponents(_, _, _, _)
EffectComponents(s, st, g, n) ==
    IF ~st.ok \/ n <= 0 THEN st
    ELSE EffectComponents(s, EffectComponent(s, st, g), g, n - 1)

EffectComponentsOfCount(s, c, g) == EffectComponents(s, DropCount(c), g, Count(c))

\* Effect: name, components
Effect(s, st, g) == EffectComponentsOfCount(s, ThenInt32ub(s, ThenString(s, st)), g)

RECURSIVE Effects(_, _, _, _)
Effects(s, st, g, n) ==
    IF ~st.ok \/ n <= 0 THEN st
    ELSE Effects(s, Effect(s, st, g), g, n - 1)

EffectsOfCount(s, c, g) == Effects(s, DropCount(c), g, Count(c))

\* animation_aabb_array and effect_array, both WithVersion(2, ...)
ThenAabbAndEffects(s, st, g) ==
    IF AtLeastVersion(st, 2)
    THEN EffectsOfCount(s, ThenInt32ub(s, NamedBlocksOfCount(s, ThenInt32ub(s, st), 24)), g)
    ELSE ThenSkip(st, 0)

\* animation_id_map=WithVersion(5, PrefixedArray(Int32ub, Int32ub))
ThenAnimationIdMap(s, st) ==
    IF AtLeastVersion(st, 5) THEN ThenPrefixedBlocks(s, st, 4) ELSE ThenSkip(st, 0)

\* indexed_animation_aabb_array=WithVersion(10, PrefixedArray(Int32ub,
\* IndexedAnimationAABB)): an id and an AABox each
ThenIndexedAabb(s, st) ==
    IF AtLeastVersion(st, 10) THEN ThenPrefixedBlocks(s, st, 28) ELSE ThenSkip(st, 0)

\* Character from id to skeleton_id: val is id, version, model_id, skin_id,
\* skeleton_id
CharacterHead(s, st) ==
    ThenArrayInt32ub(s, ThenString(s, ThenInt16ub(s, ThenInt32ub(s, st))), 3)

\* Character from animation_names to unknown_2: val gains generic_particles,
\* swoosh_particles, electric_particles, spawn_particles
CharacterMiddle(s, st) ==
    ThenVersionedBytes(s,
        ThenBytes(s,
            ThenParticleResourceData(s, ThenPasDatabase(s, ThenAnimationNames(s, st))),
            4),
        10, 4)

\* Character from animation_aabb_array on: val gains frozen_model,
\* frozen_skin, spatial_primitives_id
CharacterTail(s, st, g) ==
    ThenIndexedAabb(s,
        ThenVersionedBytes(s,
            ThenVersionedId(s,
                ThenAnimationIdMap(s,
                    ThenVersionedId(s,
                        ThenVersionedId(s, ThenAabbAndEffects(s, st, g), 4),
                        4)),
                10),
            10, 1))

CharacterFields(s, st, g) == CharacterTail(s, CharacterMiddle(s, CharacterHead(s, st)), g)

MakeCharacter(f) ==
    IF ~f.ok THEN Fail
    ELSE Ok(f.pos,
            [id |-> f.val[1], version |-> Num(f.val[2]),
             model_id |-> f.val[3], skin_id |-> f.val[4], skeleton_id |-> f.val[5],
             particle_resource_data |->
                 [generic_particles |-> f.val[6], swoosh_particles |-> f.val[7],
                  electric_particles |-> f.val[8], spawn_particles |-> f.val[9]],
             frozen_model |-> f.val[10], frozen_skin |-> f.val[11],
             spatial_primitives_id |-> f.val[12]])

AppendValue(st, inner) ==
    IF st.ok /\ inner.ok THEN Ok(inner.pos, Append(st.val, inner.val)) ELSE Fail

\* Character, appended to st.val
Character(s, st, g) == AppendValue(st, MakeCharacter(CharacterFields(s, Cursor(st), g)))

RECURSIVE Characters(_, _, _, _)
Characters(s, st, g, n) ==
    IF ~st.ok \/ n <= 0 THEN st
    ELSE Characters(s, Character(s, st, g), g, n - 1)

CharactersOfCount(s, c, g) == Characters(s, DropCount(c), g, Count(c))

\* Const(1, Int16ub)
ThenConstOne16(s, st) ==
    IF st.ok /\ st.pos + 2 <= Len(s) /\ UnpackBE(s, st.pos, 2) = <<1>>
    THEN Ok(st.pos + 2, st.val)
    ELSE Fail

\* CharacterSet: version=Const(1, Int16ub), characters; val is the characters
CharacterSet(s, st, g) == CharactersOfCount(s, ThenInt32ub(s, ThenConstOne16(s, st)), g)

\* MetaTransition_v1: a type word, followed by 14 bytes for a (phase)
\* transition and by nothing for a snap; a nested meta-animation is not
\* modelled
ThenMetaTransition(s, st) ==
    IF ~st.ok \/ st.pos + 4 > Len(s) THEN Fail
    ELSE IF UnpackBE(s, st.pos, 4) = <<3>> THEN ThenBytes(s, st, 4)
    ELSE IF UnpackBE(s, st.pos, 4) \in {<<1>>, <<2>>} THEN ThenBytes(s, st, 18)
    ELSE Fail

RECURSIVE ThenMetaAnimation(_, _)
RECURSIVE MetaChildren(_, _, _, _)

MetaChildrenOfCount(s, c, k) == MetaChildren(s, DropCount(c), Count(c), k)

\* MetaAnimation_AssetId32, a tree: a type word, then for a play node (0)
\* the ANIM asset id, the primitive id, a name and a time; for a blend (1)
\* or phase blend (2) two trees, a float and a byte; for a random node (3) a
\* counted list of trees with a probability each; for a sequence (4) a
\* counted list of trees. val gains the asset id of every play node, in the
\* order of the tree
ThenMetaAnimation(s, st) ==
    IF ~st.ok \/ st.pos + 4 > Len(s) THEN Fail
    ELSE IF UnpackBE(s, st.pos, 4) = <<>>
    THEN ThenBytes(s, ThenString(s, ThenBytes(s, ThenInt32ub(s, ThenBytes(s, st, 4)), 4)), 8)
    ELSE IF UnpackBE(s, st.pos, 4) \in {<<1>>, <<2>>}
    THEN ThenBytes(s, ThenMetaAnimation(s, ThenMetaAnimation(s, ThenBytes(s, st, 4))), 5)
    ELSE IF UnpackBE(s, st.pos, 4) = <<3>>
    THEN MetaChildrenOfCount(s, ThenInt32ub(s, ThenBytes(s, st, 4)), 4)
    ELSE IF UnpackBE(s, st.pos, 4) = <<4>>
    THEN MetaChildrenOfCount(s, ThenInt32ub(s, ThenBytes(s, st, 4)), 0)
    ELSE Fail

\* n trees, each followed by k bytes
MetaChildren(s, st, n, k) ==
    IF ~st.ok \/ n <= 0 THEN st
    ELSE MetaChildren(s, ThenBytes(s, ThenMetaAnimation(s, st), k), n - 1, k)

\* the meta field parsed after the name
AnimationMeta(s, named) == AppendField(named, ThenMetaAnimation(s, Cursor(named)))

\* Animation: name, meta; val gains the meta
Animation(s, st) == AnimationMeta(s, ThenString(s, st))

RECURSIVE Animations(_, _, _)
Animations(s, st, n) ==
    IF ~st.ok \/ n <= 0 THEN st
    ELSE Animations(s, Animation(s, st), n - 1)

AnimationsOfCount(s, c) == Animations(s, DropCount(c), Count(c))

\* Transition: unknown, animation_id_a, animation_id_b, transition
RECURSIVE Transitions(_, _, _)
Transitions(s, st, n) ==
    IF ~st.ok \/ n <= 0 THEN st
    ELSE Transitions(s, ThenMetaTransition(s, ThenBytes(s, st, 12)), n - 1)

TransitionsOfCount(s, c) == Transitions(s, DropCount(c), Count(c))

\* AdditiveAnimation: animation_id, fade_in_time, fade_out_time; val gains
\* the animation_id
RECURSIVE AdditiveAnimations(_, _, _)
AdditiveAnimations(s, st, n) ==
    IF ~st.ok \/ n <= 0 THEN st
    ELSE AdditiveAnimations(s, ThenBytes(s, ThenInt32ub(s, st), 8), n - 1)

AdditiveAnimationsOfCount(s, c) == AdditiveAnimations(s, DropCount(c), Count(c))

\* Struct(additive_animations, default_fade_in_time, default_fade_out_time)
Additive(s, st) == ThenBytes(s, AdditiveAnimationsOfCount(s, ThenInt32ub(s, st)), 8)

\* HalfTransitions: animation_id, transition; val gains the animation_id
RECURSIVE HalfTransitions(_, _, _)
HalfTransitions(s, st, n) ==
    IF ~st.ok \/ n <= 0 THEN st
    ELSE HalfTransitions(s, ThenMetaTransition(s, ThenInt32ub(s, st)), n - 1)

HalfTransitionsOfCount(s, c) == HalfTransitions(s, DropCount(c), Count(c))

\* the table_count of the AnimationSet being read (its first field)
TableCountAtLeast(st, n) == st.ok /\ Num(st.val[1]) >= n

\* additive=If(this.table_count >= 2, Struct(...))
ThenAdditive(s, st) ==
    IF TableCountAtLeast(st, 2) THEN AppendField(st, Additive(s, Cursor(st)))
    ELSE AppendAbsent(st)

ThenHalfTransitionsAtTwo(s, st) ==
    IF TableCountAtLeast(st, 2)
    THEN AppendField(st, HalfTransitionsOfCount(s, ThenInt32ub(s, Cursor(st))))
    ELSE AppendAbsent(st)

\* half_transitions=If(this.table_count >= 3, PrefixedArray(Int32ub, HalfTransitions))
ThenHalfTransitions(s, st) ==
    IF TableCountAtLeast(st, 3)
    THEN AppendField(st, HalfTransitionsOfCount(s, ThenInt32ub(s, Cursor(st))))
    ELSE AppendAbsent(st)

\* animation_resources=If(is_prime1, PrefixedArray(Int32ub, AnimationResourcePair)):
\* val gains anim_id, event_id of each pair
ThenAnimationResources(s, st, g) ==
    IF IsPrime1(g)
    THEN AppendField(st, ThenArrayInt32ub(s, DropCount(ThenInt32ub(s, Cursor(st))),
                                          2 * Count(ThenInt32ub(s, Cursor(st)))))
    ELSE AppendAbsent(st)

\* EVNT, reduced to what the dependencies need: a version word and the
\* counted list of the particle assets its effect events name
ThenEvnt(s, st) == ThenPrefixedArrayInt32ub(s, ThenBytes(s, st, 4))

RECURSIVE EventSets(_, _, _)
EventSets(s, st, n) ==
    IF ~st.ok \/ n <= 0 THEN st
    ELSE EventSets(s, AppendField(st, ThenEvnt(s, Cursor(st))), n - 1)

EventSetsOfCount(s, c) == EventSets(s, DropCount(c), Count(c))

\* event_sets=If(is_prime2, PrefixedArray(Int32ub, EVNT))
ThenEventSets(s, st, g) ==
    IF IsPrime2(g) THEN AppendField(st, EventSetsOfCount(s, ThenInt32ub(s, Cursor(st))))
    ELSE AppendAbsent(st)

\* AnimationSet from table_count to default_transition: val is table_count
\* and the meta of every animation
AnimationSetHead(s, st) ==
    ThenMetaTransition(s,
        TransitionsOfCount(s,
            ThenInt32ub(s,
                AppendField(ThenInt16ub(s, st),
                            AnimationsOfCount(s, ThenInt32ub(s, Cursor(ThenInt16ub(s, st))))))))

\* AnimationSet from additive on; the cursor is noted before additive, after
\* it and after half_transitions
AnimationSetTail(s, st, g) ==
    ThenEventSets(s,
        ThenAnimationResources(s,
            AppendPos(ThenHalfTransitions(s, AppendPos(ThenAdditive(s, AppendPos(st))))),
            g),
        g)

MakeAnimationSet(f) ==
    IF ~f.ok THEN Fail
    ELSE Ok(f.pos,
            [table_count |-> Num(f.val[1]), animations |-> f.val[2].items,
             additive |-> f.val[4], half_transitions |-> f.val[6],
             animation_resources |-> f.val[8], event_sets |-> f.val[9],
             cursor |-> [before_additive |-> f.val[3], after_additive |-> f.val[5],
                         after_half_transitions |-> f.val[7]]])

AnimationSet(s, st, g) ==
    MakeAnimationSet(AnimationSetTail(s, AnimationSetHead(s, Cursor(st)), g))

MakeAncs(cs, as) ==
    IF cs.ok /\ as.ok
    THEN [ok |-> TRUE, character_set |-> [characters |-> cs.val], animation_set |-> as.val]
    ELSE [ok |-> FALSE]

AncsBody(s, cs, g) == MakeAncs(cs, AnimationSet(s, cs, g))

\* ANCS: version=Const(1, Int16ub), character_set, animation_set
AncsParse(s, g) == AncsBody(s, CharacterSet(s, ThenConstOne16(s, At(0)), g), g)

----------------------------------------------------------------------------
(* ANCS: dependencies *)

Yielded(recs, cs, exc, visited) ==
    [recs |-> recs, calls |-> cs, exc |-> exc, visited |-> visited]

Nothing == Yielded(<<>>, <<>>, "none", <<>>)

\* two generators run one after the other: an exception of the first ends
\* the run
YieldFrom(a, b) ==
    IF a.exc # "none" THEN a
    ELSE Yielded(a.recs \o b.recs, a.calls \o b.calls, b.exc, a.visited \o b.visited)

\* asset_manager.get_dependencies_for_asset(asset_id), both flags at their
\* default; what the catalog does with None is an input (none_raises)
Lookup(id, none_raises) ==
    IF id = None
    THEN Yielded(<<>>, <<Call(id, FALSE, FALSE)>>,
                 IF none_raises THEN "UnknownAssetId" ELSE "none", <<>>)
    ELSE Yielded(GetDependenciesForAsset(id, FALSE, FALSE).recs,
                 <<Call(id, FALSE, FALSE)>>,
                 GetDependenciesForAsset(id, FALSE, FALSE).exc, <<>>)

\* for asset_id in asset_ids: yield from asset_manager.get_dependencies_for_asset(asset_id)
RECURSIVE LookupAll(_, _)
LookupAll(ids, none_raises) ==
    IF ids = <<>> THEN Nothing
    ELSE YieldFrom(Lookup(Head(ids), none_raises), LookupAll(Tail(ids), none_raises))

\* _array of char_dependencies_for: only the list itself is tested for None
ArrayDeps(field, none_raises) ==
    IF field.present THEN LookupAll(field.items, none_raises) ELSE Nothing

ParticleDeps(psd, none_raises) ==
    YieldFrom(ArrayDeps(psd.generic_particles, none_raises),
    YieldFrom(ArrayDeps(psd.swoosh_particles, none_raises),
    YieldFrom(ArrayDeps(psd.electric_particles, none_raises),
              ArrayDeps(psd.spawn_particles, none_raises))))

CharacterIds(character) ==
    <<character.model_id, character.skin_id, character.skeleton_id,
      character.frozen_model, character.frozen_skin, character.spatial_primitives_id>>

CharDependenciesFor(character, none_raises) ==
    YieldFrom(ArrayDeps(Present(CharacterIds(character)), none_raises),
              ParticleDeps(character.particle_resource_data, none_raises))

\* char_dependencies_for on the character at index i (from 0)
VisitCharacter(characters, i, none_raises) ==
    YieldFrom(Yielded(<<>>, <<>>, "none", <<i>>),
              CharDependenciesFor(characters[i + 1], none_raises))

\* meta_animation.dependencies_for: the ANIM asset of every play node
MetaAnimationDependenciesFor(meta, none_raises) == LookupAll(meta.items, none_raises)

\* evnt.dependencies_for: the particle assets of the event set
EvntDependenciesFor(event, none_raises) == LookupAll(event.items, none_raises)

\* for animation in obj.animation_set.animations
RECURSIVE AnimationsDeps(_, _)
AnimationsDeps(animations, none_raises) ==
    IF animations = <<>> THEN Nothing
    ELSE YieldFrom(MetaAnimationDependenciesFor(Head(animations), none_raises),
                   AnimationsDeps(Tail(animations), none_raises))

\* for event in (obj.animation_set.event_sets or [])
RECURSIVE EventsDeps(_, _)
EventsDeps(events, none_raises) ==
    IF events = <<>> THEN Nothing
    ELSE YieldFrom(EvntDependenciesFor(Head(events), none_raises),
                   EventsDeps(Tail(events), none_raises))

EventSetsDeps(field, none_raises) ==
    IF field.present THEN EventsDeps(field.items, none_raises) ELSE Nothing

NonCharDependenciesFor(obj, none_raises) ==
    YieldFrom(AnimationsDeps(obj.animation_set.animations, none_raises),
    YieldFrom(ArrayDeps(obj.animation_set.animation_resources, none_raises),
              EventSetsDeps(obj.animation_set.event_sets, none_raises)))

RECURSIVE VisitCharacters(_, _, _)
VisitCharacters(characters, i, none_raises) ==
    IF i >= Len(characters) THEN Nothing
    ELSE YieldFrom(VisitCharacter(characters, i, none_raises),
                   VisitCharacters(characters, i + 1, none_raises))

DependenciesFor(obj, none_raises) ==
    YieldFrom(VisitCharacters(obj.character_set.characters, 0, none_raises),
              NonCharDependenciesFor(obj, none_raises))

EmptySuitIndexAlwaysFive(g) == 5

EmptySuitIndex(g) == IF g = "PRIME" THEN 5 ELSE 3

\* characters[empty_suit_index] is evaluated before anything is yielded
PlayerActorDependenciesFor(obj, i, none_raises) ==
    IF i >= Len(obj.character_set.characters)
    THEN Yielded(<<>>, <<>>, "IndexError", <<>>)
    ELSE YieldFrom(VisitCharacter(obj.character_set.characters, i, none_raises),
                   NonCharDependenciesFor(obj, none_raises))

MlvlDependenciesFor(obj, g, is_player_actor, none_raises) ==
    IF ~is_player_actor THEN DependenciesFor(obj, none_raises)
    ELSE PlayerActorDependenciesFor(obj, EmptySuitIndex(g), none_raises)

----------------------------------------------------------------------------
(* The dispatcher *)

FORMATS_TO_CHEAT == {"CSNG", "DUMB", "FRME", "FSM2", "HINT", "RULE", "FONT", "CMDL"}

ShouldCheatAsset(asset_type) == asset_type \in FORMATS_TO_CHEAT

\* _FORMATS_TO_CHEAT[asset.type](asset, asset_manager, is_mlvl)
StructuredCall(a, g, mlvl) ==
    CASE a.type = "CSNG" -> CsngDependencies(a, g, mlvl)
      [] a.type = "DUMB" -> DumbDependencies(a, g, mlvl)
      [] a.type = "FRME" -> FrmeDependencies(a, g, mlvl)
      [] a.type = "FSM2" -> Fsm2Dependencies(a, g, mlvl)
      [] a.type = "HINT" -> HintDependencies(a, g, mlvl)
      [] a.type = "RULE" -> RuleDependencies(a, g, mlvl)
      [] a.type = "FONT" -> FontDependencies(a, g, mlvl)
      [] a.type = "CMDL" -> CmdlDependencies(a, g, mlvl)

\* the try statement with `except Exception` in place of
\* `except UnableToCheatError`
AfterStructuredCatchAll(exc) ==
    IF exc = "none" THEN [pc |-> "Done", err |-> "none"]
    ELSE [pc |-> "TryHeuristic", err |-> "none"]

\* the try statement without its `return`
AfterStructuredNoReturn(exc) ==
    IF exc \in {"none", "UnableToCheatError"}
    THEN [pc |-> "TryHeuristic", err |-> "none"]
    ELSE [pc |-> "Done", err |-> exc]

\* where get_cheated_dependencies goes once the structured decoder ended
\* with exc: `return`, `except UnableToCheatError: pass`, or the exception
\* leaves the generator
AfterStructured(exc) ==
    IF exc = "none" THEN [pc |-> "Done", err |-> "none"]
    ELSE IF exc = "UnableToCheatError" THEN [pc |-> "TryHeuristic", err |-> "none"]
    ELSE [pc |-> "Done", err |-> exc]

\* the last line with is_mlvl left to its default
FallbackCallDefaultFlag(a, g, mlvl) == Cheat(a.data, g, FALSE)

\* yield from _cheat(asset.data, asset_manager, is_mlvl)
FallbackCall(a, g, mlvl) == Cheat(a.data, g, mlvl)

Dispatch ==
    /\ pc = "Start"
    /\ pc' = IF ShouldCheatAsset(asset.type) THEN "TryStructured" ELSE "TryHeuristic"
    /\ path' = Append(path, pc')
    /\ UNCHANGED <<asset, game, is_mlvl, hier, out, calls, probes, err,
                   structExc, fromStruct, nStructured, nHeuristic, ancs, disc>>

RunStructured ==
    /\ pc = "TryStructured"
    /\ LET r == StructuredCall(asset, game, is_mlvl)
           next == AfterStructured(r.exc)
       IN  /\ out' = out \o r.recs
           /\ calls' = calls \o r.calls
           /\ fromStruct' = fromStruct + Len(r.recs)
           /\ structExc' = r.exc
           /\ pc' = next.pc
           /\ err' = next.err
           /\ path' = Append(path, next.pc)
    /\ nStructured' = nStructured + 1
    /\ UNCHANGED <<asset, game, is_mlvl, hier, probes, nHeuristic, ancs, disc>>

RunHeuristic ==
    /\ pc = "TryHeuristic"
    /\ LET r == FallbackCall(asset, game, is_mlvl)
       IN  /\ out' = out \o r.recs
           /\ calls' = calls \o r.calls
           /\ probes' = probes \o r.probes
    /\ nHeuristic' = nHeuristic + 1
    /\ pc' = "Done"
    /\ path' = Append(path, "Done")
    /\ UNCHANGED <<asset, game, is_mlvl, hier, err, structExc, fromStruct,
                   nStructured, ancs, disc>>

----------------------------------------------------------------------------
(* Inputs *)

RECURSIVE Flatten(_)
Flatten(ss) == IF ss = <<>> THEN <<>> ELSE Head(ss) \o Flatten(Tail(ss))

RECURSIVE SeqsUpTo(_, _)
SeqsUpTo(S, n) ==
    IF n <= 0 THEN {<<>>}
    ELSE LET shorter == SeqsUpTo(S, n - 1)
         IN  shorter \cup {Append(q, x) : q \in shorter, x \in S}

Truncated(d) == SubSeq(d, 1, Len(d) - 1)

\* byte strings met by the scanner: zero padding, then a few bytes
Streams == {Zeros(p) \o t : p \in 0..MaxPad, t \in SeqsUpTo({0, 1}, MaxTail)}

\* identifiers written into structured assets: 1, 2, 256 are catalogued,
\* 77 is not
IdPool == {1, 2, 77}

U32s(ns) == Flatten([i \in 1..Len(ns) |-> U32(ns[i])])

IdLists == SeqsUpTo(IdPool, MaxDeps)

FrmeBlob(ids) == U32(0) \o U32(Len(ids)) \o U32s(ids)

RuleBlob(id) == Zeros(5) \o U32(id)

FontBlob(id) == Zeros(34) \o <<65, 0>> \o U32(id)

CsngBlob(id) == U32(2) \o Zeros(8) \o U32(id)

HintLocBlob(loc) == U32(loc[1]) \o U32(loc[2]) \o U32(0) \o U32(loc[3])

HintEntryBlob(popup, locs) ==
    <<72, 0>> \o U32(0) \o U32(0) \o U32(popup) \o U32(0) \o U32(Len(locs))
    \o Flatten([i \in 1..Len(locs) |-> HintLocBlob(locs[i])])

HintBlob(entries) ==
    <<0, 186, 219, 173>> \o U32(1) \o U32(Len(entries))
    \o Flatten([i \in 1..Len(entries) |-> HintEntryBlob(entries[i][1], entries[i][2])])

HintLocs == {<<>>} \cup {<< <<40, 41, strg>> >> : strg \in IdPool}

HintBlobs ==
    {HintBlob(<<>>)}
    \cup {HintBlob(<< <<popup, locs>> >>) : popup \in IdPool, locs \in HintLocs}
    \cup {HintBlob(<< <<2, <<>> >>, <<popup, <<>> >> >>) : popup \in IdPool}

Fsm2Pad(version) == IF version >= 2 THEN Zeros(16) ELSE <<>>

Fsm2StateBlob(version) ==
    <<83, 0>> \o Fsm2Pad(version) \o U32(1) \o <<84, 0>> \o Zeros(4)

Fsm2Unk1Blob(version) ==
    <<85, 0>> \o Fsm2Pad(version) \o Zeros(4) \o U32(0) \o Zeros(1)

Fsm2Unk3Blob(version, dep) ==
    <<86, 0>> \o Fsm2Pad(version) \o U32(0) \o U32(dep)

\* written with layout version `layout`, declaring version `version`
Fsm2Blob(version, layout, deps) ==
    Fsm2Magic \o U32(version) \o U32(1) \o U32(1) \o U32(1) \o U32(Len(deps))
    \o Fsm2StateBlob(layout) \o Fsm2Unk1Blob(layout) \o Fsm2StateBlob(layout)
    \o Flatten([i \in 1..Len(deps) |-> Fsm2Unk3Blob(layout, deps[i])])

Fsm2Blobs ==
    {Fsm2Blob(v, v, deps) : v \in {1, 2}, deps \in IdLists}
    \cup {Fsm2Blob(1, 2, <<1>>), Fsm2Blob(2, 1, <<1>>)}

CmdlSectionBlob(ids) == U32(Len(ids)) \o U32s(ids) \o Zeros(28 - 4 * Len(ids))

\* nsec data sections declared, one material set per id list
CmdlBlob(nsec, sets) ==
    Zeros(36) \o U32(nsec) \o U32(Len(sets)) \o U32s([i \in 1..nsec |-> 32])
    \o Zeros(64 - 44 - 4 * nsec)
    \o Flatten([i \in 1..Len(sets) |-> CmdlSectionBlob(sets[i])])

CmdlBlobs ==
    {CmdlBlob(2, <<>>)}
    \cup {CmdlBlob(2, <<ids>>) : ids \in IdLists}
    \cup {CmdlBlob(2, <<ids, <<2>> >>) : ids \in IdLists}
    \cup {CmdlBlob(1, << <<1>>, <<2>> >>)}

WithTruncated(blobs) == blobs \cup {Truncated(b) : b \in blobs}

Blobs(type) ==
    CASE type = "CSNG" -> {CsngBlob(id) : id \in IdPool} \cup {Zeros(16)}
      [] type = "DUMB" -> {Zeros(4)}
      [] type = "FRME" -> {FrmeBlob(ids) : ids \in IdLists}
      [] type = "FSM2" -> Fsm2Blobs
      [] type = "HINT" -> HintBlobs \cup {U32(1) \o U32(1) \o U32(0)}
      [] type = "RULE" -> {RuleBlob(id) : id \in IdPool \cup {256}}
      [] type = "FONT" -> {FontBlob(id) : id \in IdPool}
      [] type = "CMDL" -> CmdlBlobs
      [] OTHER -> {}

Assets ==
    {[type |-> t, data |-> d] : t \in {"TXTR", "STRG", "FRME", "RULE"}, d \in Streams}
    \cup UNION {{[type |-> t, data |-> d] : d \in WithTruncated(Blobs(t))}
                : t \in FORMATS_TO_CHEAT}
    \cup {[type |-> "TXTR", data |-> d] : d \in Blobs("FRME") \cup Blobs("RULE")}

NoHier == [ok |-> TRUE, ids |-> <<>>]

NoAncs == [pc |-> "Idle"]

NoDisc == [pc |-> "Idle"]

Hiers == {[ok |-> FALSE, ids |-> <<>>]} \cup {[ok |-> TRUE, ids |-> ids] : ids \in IdLists}

RECURSIVE ToDigits(_)
ToDigits(ns) ==
    IF ns = <<>> THEN <<>> ELSE <<StripZeros(U32(Head(ns)))>> \o ToDigits(Tail(ns))

----------------------------------------------------------------------------
(* get_cheated_dependencies on one asset *)

Init ==
    /\ asset \in Assets
    /\ game \in Games
    /\ is_mlvl \in BOOLEAN
    /\ hier \in IF asset.type = "DUMB"
                THEN {[h EXCEPT !.ids = ToDigits(h.ids)] : h \in Hiers}
                ELSE {NoHier}
    /\ pc = "Start"
    /\ path = <<"Start">>
    /\ out = <<>>
    /\ calls = <<>>
    /\ probes = <<>>
    /\ err = "none"
    /\ structExc = "none"
    /\ fromStruct = 0
    /\ nStructured = 0
    /\ nHeuristic = 0
    /\ ancs = NoAncs
    /\ disc = NoDisc

Next == Dispatch \/ RunStructured \/ RunHeuristic

Spec == Init /\ [][Next]_vars

----------------------------------------------------------------------------
(* ANCS assets and Ancs.dependencies_for / Ancs.mlvl_dependencies_for *)

EmptyName == <<0>>

ShortName == <<65, 0>>

VersionCycle == <<10, 1, 4, 5, 2, 6, 9, 3>>

Shifts == {0, 3, 7}

\* the version of character i of an asset
VersionOf(i, shift) == VersionCycle[((i + shift) % Len(VersionCycle)) + 1]

\* field k of character i holds the identifier 16 * (i + 1) + k
IdOf(i, k) == U32(16 * (i + 1) + k)

AnimationNameBlob(v) ==
    U32(1) \o U32(0) \o (IF v < 10 THEN EmptyName ELSE <<>>) \o ShortName

PasBlob == PasMagic \o U32(0) \o <<255, 255, 255, 255>>

ParticleBlob(i, v) ==
    U32(1) \o IdOf(i, 4) \o U32(1) \o IdOf(i, 10)
    \o (IF v >= 6 THEN U32(0) ELSE <<>>)
    \o U32(1) \o IdOf(i, 5)
    \o (IF v >= 10 THEN U32(1) \o IdOf(i, 6) ELSE <<>>)

EffectBlob(g) ==
    U32(1) \o ShortName \o U32(1) \o ShortName \o Zeros(8)
    \o (IF IsPrime1(g) THEN ShortName ELSE IF IsPrime2(g) THEN U32(2) ELSE <<>>)
    \o Zeros(12)

CharacterTailBlob(i, v, g) ==
    (IF v >= 2 THEN U32(1) \o ShortName \o Zeros(24) \o EffectBlob(g) ELSE <<>>)
    \o (IF v >= 4 THEN IdOf(i, 7) \o IdOf(i, 8) ELSE <<>>)
    \o (IF v >= 5 THEN U32(1) \o U32(0) ELSE <<>>)
    \o (IF v >= 10 THEN IdOf(i, 9) \o <<1>> \o U32(1) \o Zeros(28) ELSE <<>>)

\* character i at version v; skin_id is an identifier the catalog does not
\* hold when unknown_skin
CharacterBlob(i, v, g, unknown_skin) ==
    U32(i) \o U16(v) \o ShortName
    \o IdOf(i, 1) \o IdOf(i, IF unknown_skin THEN 13 ELSE 2) \o IdOf(i, 3)
    \o AnimationNameBlob(v) \o PasBlob \o ParticleBlob(i, v)
    \o U32(0) \o (IF v >= 10 THEN U32(0) ELSE <<>>)
    \o CharacterTailBlob(i, v, g)

CharacterSetBlob(n, shift, g, bad) ==
    U16(1) \o U32(n)
    \o Flatten([k \in 1..n |-> CharacterBlob(k - 1, VersionOf(k - 1, shift), g, bad = k - 1)])

SnapBlob == U32(3)

PlayBlob(id) == U32(0) \o U32(id) \o U32(0) \o ShortName \o Zeros(8)

\* the meta-animation of an asset: one play node, a sequence of a play node
\* and a blend of two, or a random node whose ANIM asset is not catalogued
MetaAnimationBlob(shift) ==
    CASE shift = 0 -> PlayBlob(5)
      [] shift = 3 -> U32(4) \o U32(2) \o PlayBlob(5)
                      \o U32(1) \o PlayBlob(6) \o PlayBlob(5) \o Zeros(5)
      [] OTHER -> U32(3) \o U32(1) \o PlayBlob(77) \o U32(1)

AnimationBlob(shift) == ShortName \o MetaAnimationBlob(shift)

EvntBlob == U32(2) \o U32(1) \o U32(257)

AdditiveBlob == U32(1) \o U32(5) \o Zeros(8) \o Zeros(8)

HalfTransitionsBlob == U32(1) \o U32(5) \o SnapBlob

AnimationSetHeadBlob(tc, shift) ==
    U16(tc) \o U32(1) \o AnimationBlob(shift) \o U32(1) \o Zeros(12) \o SnapBlob \o SnapBlob

AnimationSetEndBlob(g) ==
    IF IsPrime1(g) THEN U32(1) \o U32(5) \o U32(6)
    ELSE IF IsPrime2(g) THEN U32(1) \o EvntBlob
    ELSE <<>>

Layouts == {"exact", "all", "cut"}

\* the blocks written follow table_count ("exact", "cut") or are both
\* written whatever table_count says ("all")
AnimationSetBlob(tc, layout, g, shift) ==
    AnimationSetHeadBlob(tc, shift)
    \o (IF tc >= 2 \/ layout = "all" THEN AdditiveBlob ELSE <<>>)
    \o (IF tc >= 3 \/ layout = "all" THEN HalfTransitionsBlob ELSE <<>>)
    \o AnimationSetEndBlob(g)

WholeAncsBlob(n, shift, bad, tc, layout, g) ==
    U16(1) \o CharacterSetBlob(n, shift, g, bad) \o AnimationSetBlob(tc, layout, g, shift)

AncsBlob(n, shift, bad, tc, layout, g) ==
    IF layout = "cut"
    THEN SubSeq(WholeAncsBlob(n, shift, bad, tc, layout, g), 1,
                Len(WholeAncsBlob(n, shift, bad, tc, layout, g)) - 2)
    ELSE WholeAncsBlob(n, shift, bad, tc, layout, g)

TableCounts == 0..4

BadCharacters == {0 - 1, 3, 5}

AncsBlobs(g) ==
    {AncsBlob(n, shift, bad, tc, layout, g) :
        n \in 0..MaxChars, shift \in Shifts, bad \in BadCharacters,
        tc \in TableCounts, layout \in Layouts}

NotParsed == [ok |-> FALSE]

InitAncs ==
    /\ game \in Games
    /\ ancs \in {[pc |-> "Start", data |-> d, is_player_actor |-> p, none_raises |-> r,
                  raw |-> NotParsed, op |-> "", out |-> <<>>, calls |-> <<>>,
                  visited |-> <<>>, err |-> "none"] :
                     d \in AncsBlobs(game), p \in BOOLEAN, r \in BOOLEAN}
    /\ asset = [type |-> "ANCS", data |-> <<>>]
    /\ is_mlvl = FALSE
    /\ hier = NoHier
    /\ pc = "Idle"
    /\ path = <<>>
    /\ out = <<>>
    /\ calls = <<>>
    /\ probes = <<>>
    /\ err = "none"
    /\ structExc = "none"
    /\ fromStruct = 0
    /\ nStructured = 0
    /\ nHeuristic = 0
    /\ disc = NoDisc

Ran(a, op, result) ==
    [a EXCEPT !.pc = "Done", !.op = op, !.out = result.recs, !.calls = result.calls,
              !.visited = result.visited, !.err = result.exc]

\* ANCS.parse(data, target_game=...): the resource's raw value
AncsDecode ==
    /\ ancs.pc = "Start"
    /\ ancs' = [ancs EXCEPT !.raw = AncsParse(ancs.data, game),
                            !.pc = IF AncsParse(ancs.data, game).ok THEN "Parsed" ELSE "Failed",
                            !.err = IF AncsParse(ancs.data, game).ok THEN "none"
                                    ELSE "ConstructError"]
    /\ UNCHANGED <<cheatVars, disc>>

\* Ancs.dependencies_for(), run to its end
AncsDependenciesFor ==
    /\ ancs.pc = "Parsed"
    /\ ancs' = Ran(ancs, "dependencies_for", DependenciesFor(ancs.raw, ancs.none_raises))
    /\ UNCHANGED <<cheatVars, disc>>

\* Ancs.mlvl_dependencies_for(is_player_actor), run to its end
AncsMlvlDependenciesFor ==
    /\ ancs.pc = "Parsed"
    /\ ancs' = Ran(ancs, "mlvl_dependencies_for",
                   MlvlDependenciesFor(ancs.raw, game, ancs.is_player_actor, ancs.none_raises))
    /\ UNCHANGED <<cheatVars, disc>>

NextAncs == AncsDecode \/ AncsDependenciesFor \/ AncsMlvlDependenciesFor

SpecAncs == InitAncs /\ [][NextAncs]_vars

----------------------------------------------------------------------------
(* disc/game_disc.py: the file tree of a disc *)

\* bytes.decode("ascii"): every byte is below 0x80
IsAscii(bytes) == \A k \in 1..Len(bytes) : bytes[k] < 128

\* construct.CString("ascii").parse_stream after names_stream.seek(off):
\* the bytes from off up to the first zero byte, decoded as ASCII; a missing
\* terminator fails, and so does a byte that is not ASCII
CString(names, off) ==
    IF FindNull(names, off) < 0 THEN Fail
    ELSE IF ~IsAscii(SubSeq(names, off + 1, FindNull(names, off))) THEN Fail
    ELSE Ok(FindNull(names, off) + 1, SubSeq(names, off + 1, FindNull(names, off)))

\* FileEntry(offset, size) stored under a name
FileItem(name, offset, size) ==
    [name |-> name, is_dir |-> FALSE, ref |-> 0, offset |-> offset, size |-> size]

\* a dict stored under a name; ref is the index of the entry that made it
DirItem(name, ref) ==
    [name |-> name, is_dir |-> TRUE, ref |-> ref, offset |-> 0, size |-> 0]

\* a dict keeps its keys in insertion order
HasKey(d, name) == \E k \in 1..Len(d) : d[k].name = name

KeyIndex(d, name) == CHOOSE k \in 1..Len(d) : d[k].name = name

\* d[name] = item: a key already there keeps its place and loses its value
DictSet(d, item) ==
    IF HasKey(d, item.name) THEN [d EXCEPT ![KeyIndex(d, item.name)] = item]
    ELSE Append(d, item)

\* the dict objects, dicts[k + 1] made by entry k (the root dict by entry 0)
SetIn(dicts, id, item) == [dicts EXCEPT ![id + 1] = DictSet(@, item)]

EndFolderPopLast(dirs) == dirs[Len(dirs)]

\* end_folder.pop(i)[0]
EndFolderPop(dirs) == Head(dirs)

\* if i in end_folder: current_dir = end_folder.pop(i)[0]
LeaveFolders(st, i) ==
    IF st.end_folder[i] # <<>>
    THEN [st EXCEPT !.current_dir = EndFolderPop(st.end_folder[i]),
                    !.end_folder = [@ EXCEPT ![i] = <<>>]]
    ELSE st

\* the directory branch of the loop body
EnterFolder(st, i, file, name) ==
    [st EXCEPT !.end_folder = [@ EXCEPT ![file.param] = Append(@, st.current_dir)],
               !.dicts = SetIn(@, st.current_dir, DirItem(name, i)),
               !.current_dir = i]

\* the file branch of the loop body
AddFile(st, file, name) ==
    [st EXCEPT !.dicts = SetIn(@, st.current_dir, FileItem(name, file.offset, file.param))]

PlaceEntry(st, i, file, name) ==
    IF ~name.ok THEN [st EXCEPT !.pc = "Failed", !.err = "ConstructError"]
    ELSE IF file.is_directory THEN EnterFolder(st, i, file, name.val)
    ELSE AddFile(st, file, name.val)

\* one iteration of the loop of decode_into_file_tree, on entry i
DecodeEntry(st, i) ==
    IF i = 0 THEN st
    ELSE PlaceEntry(LeaveFolders(st, i), i, st.fst.file_entries[i + 1],
                    CString(st.fst.names, st.fst.file_entries[i + 1].file_name))

Slash == <<47>>

\* f"{parent}/{key}" if parent else key
JoinPath(parent, key) == IF parent # <<>> THEN parent \o Slash \o key ELSE key

\* GameDisc.files: recurse(parent, tree) from the k-th key of dict id on
RECURSIVE Recurse(_, _, _, _)
Recurse(dicts, id, k, parent) ==
    IF k > Len(dicts[id + 1]) THEN <<>>
    ELSE (IF dicts[id + 1][k].is_dir
          THEN Recurse(dicts, dicts[id + 1][k].ref, 1, JoinPath(parent, dicts[id + 1][k].name))
          ELSE <<JoinPath(parent, dicts[id + 1][k].name)>>)
         \o Recurse(dicts, id, k + 1, parent)

Files(dicts) == Recurse(dicts, 0, 1, <<>>)

\* the names of a file-system table: "a" (at offset 1 the empty name), "ba"
\* (whose tail is "a" again), a name that is not ASCII and a last name that
\* lacks its terminator
NamesStream == <<97, 0, 98, 97, 0, 195, 0, 99>>

NameOffsets(i) ==
    CASE i = 1 -> {0, 1, 2}
      [] i = 2 -> {2, 3}
      [] i = 3 -> {0, 5, 7}
      [] OTHER -> IF i % 2 = 0 THEN {3} ELSE {2}

\* entry i is a file (0) or a directory that ends before entry kinds[i];
\* the choices for the entries 1..m of a table of n entries
RECURSIVE KindChoices(_, _)
KindChoices(m, n) ==
    IF m <= 0 THEN {<<>>}
    ELSE {Append(kinds, kind) : kinds \in KindChoices(m - 1, n),
                                kind \in {0} \cup ((m + 1)..n)}

RECURSIVE NameChoices(_)
NameChoices(m) ==
    IF m <= 0 THEN {<<>>}
    ELSE {Append(offs, off) : offs \in NameChoices(m - 1), off \in NameOffsets(m)}

RootEntry(n) == [is_directory |-> TRUE, file_name |-> 0, offset |-> 0, param |-> n]

TableEntry(i, kind, off) ==
    IF kind = 0
    THEN [is_directory |-> FALSE, file_name |-> off, offset |-> 32 * i, param |-> 10 + i]
    ELSE [is_directory |-> TRUE, file_name |-> off, offset |-> 0, param |-> kind]

Fst(n, kinds, offs) ==
    [names |-> NamesStream,
     file_entries |-> [i \in 1..n |-> IF i = 1 THEN RootEntry(n)
                                      ELSE TableEntry(i - 1, kinds[i - 1], offs[i - 1])]]

\* decode_into_file_tree(fst) before its loop
StartDecode(fst) ==
    [pc |-> "Decoding", fst |-> fst, i |-> 0,
     dicts |-> [k \in 1..Len(fst.file_entries) |-> <<>>],
     current_dir |-> 0,
     end_folder |-> [k \in 1..Len(fst.file_entries) |-> <<>>],
     files |-> <<>>, err |-> "none"]

InitDisc ==
    /\ \E n \in 1..MaxEntries :
           \E kinds \in KindChoices(n - 1, n), offs \in NameChoices(n - 1) :
               disc = StartDecode(Fst(n, kinds, offs))
    /\ ancs = NoAncs
    /\ asset = [type |-> "ANCS", data |-> <<>>]
    /\ game = "PRIME"
    /\ is_mlvl = FALSE
    /\ hier = NoHier
    /\ pc = "Idle"
    /\ path = <<>>
    /\ out = <<>>
    /\ calls = <<>>
    /\ probes = <<>>
    /\ err = "none"
    /\ structExc = "none"
    /\ fromStruct = 0
    /\ nStructured = 0
    /\ nHeuristic = 0

Advance(st) == IF st.pc = "Decoding" THEN [st EXCEPT !.i = @ + 1] ELSE st

\* one iteration of `for i, file in enumerate(fst.file_entries)`
DecodeNext ==
    /\ disc.pc = "Decoding"
    /\ disc.i < Len(disc.fst.file_entries)
    /\ disc' = Advance(DecodeEntry(disc, disc.i))
    /\ UNCHANGED <<cheatVars, ancs>>

\* return file_tree: GameDisc.__init__ keeps it as _file_tree
DecodeReturn ==
    /\ disc.pc = "Decoding"
    /\ disc.i = Len(disc.fst.file_entries)
    /\ disc' = [disc EXCEPT !.pc = "Built"]
    /\ UNCHANGED <<cheatVars, ancs>>

\* GameDisc.files()
ListFiles ==
    /\ disc.pc = "Built"
    /\ disc' = [disc EXCEPT !.pc = "Listed", !.files = Files(disc.dicts)]
    /\ UNCHANGED <<cheatVars, ancs>>

NextDisc == DecodeNext \/ DecodeReturn \/ ListFiles

SpecDisc == InitDisc /\ [][NextDisc]_vars

----------------------------------------------------------------------------
(* Properties of the scanner and the dispatcher *)

Done == pc = "Done"

\* the offsets 0, 1, ..., m in increasing order (none when m < 0)
OffsetsUpTo(m) == [k \in 1..(m + 1) |-> k - 1]

Registered == ShouldCheatAsset(asset.type)

\* C1: once _cheat has run over a buffer of length L with identifier width
\* W, it has probed exactly the offsets 0..L-W, the last one included, each
\* once and in increasing order (nothing when L < W).
C1_ProbesEveryWindow ==
    (Done /\ nHeuristic = 1)
        => probes = OffsetsUpTo(Len(asset.data) - AssetIdSize(game))

\* C2: for a registered type, a layout failure of the structured decoder
\* never reaches the caller: the scanner is run instead.
C2_LayoutFailureFallsBack ==
    (Done /\ Registered /\ structExc = "ConstructError")
        => (err = "none" /\ nHeuristic = 1)

\* C3: the output is either the structured decoder's or the scanner's:
\* whenever the scanner has run, no record of the structured decoder has
\* been yielded.
C3_NeverMixed == nHeuristic = 1 => fromStruct = 0

\* the FRME asset parses and declares an ID the catalog does not hold
FrmeDeclaresUnknownId ==
    /\ asset.type = "FRME"
    /\ FrmeParse(asset.data).ok
    /\ \E i \in 1..Len(FrmeDeps(FrmeParse(asset.data))) :
           FrmeDeps(FrmeParse(asset.data))[i] \notin DOMAIN KnownAssets

\* C4: a FRME asset that declares an ID the catalog cannot resolve ends in a
\* failure surfaced to the caller (UnknownAssetId is a hard failure), and the
\* scanner is not run.
C4_FrmeUnknownIdIsHardFailure ==
    (Done /\ FrmeDeclaresUnknownId) => (err # "none" /\ nHeuristic = 0)

PropagatingDecoders == {"CSNG", "FSM2", "HINT", "RULE", "FONT", "CMDL"}

\* C5: for CSNG, FSM2, HINT, RULE, FONT and CMDL an UnknownAssetId raised by
\* the catalog inside the decoder reaches the caller; the scanner is not run.
C5_UnknownAssetIdPropagates ==
    (Done /\ asset.type \in PropagatingDecoders /\ structExc = "UnknownAssetId")
        => (err = "UnknownAssetId" /\ nHeuristic = 0 /\ probes = <<>>)

C5_Witness ==
    /\ Done /\ asset.type = "HINT" /\ structExc = "UnknownAssetId"
    /\ err = "UnknownAssetId"
    /\ fromStruct > 0

\* C6: for an unregistered type, get_cheated_dependencies yields what
\* _cheat(asset.data, asset_manager, is_mlvl) yields, with the same catalog
\* calls (the is_mlvl flag included), and runs no structured decoder.
C6_UnregisteredIsCheat ==
    (Done /\ ~Registered)
        => /\ out = Cheat(asset.data, game, is_mlvl).recs
           /\ calls = Cheat(asset.data, game, is_mlvl).calls
           /\ nStructured = 0
           /\ err = "none"

C6_Witness ==
    /\ Done /\ ~Registered /\ is_mlvl
    /\ Len(out) >= 2
    /\ nHeuristic = 1

DispatchPaths ==
    {<<"Start">>,
     <<"Start", "TryStructured">>,
     <<"Start", "TryStructured", "Done">>,
     <<"Start", "TryStructured", "TryHeuristic">>,
     <<"Start", "TryStructured", "TryHeuristic", "Done">>,
     <<"Start", "TryHeuristic">>,
     <<"Start", "TryHeuristic", "Done">>}

\* C7: the dispatch follows Start -> TryStructured -> {Done | TryHeuristic
\* -> Done} or Start -> TryHeuristic -> Done; each of the decoder and the
\* scanner runs at most once; and when the structured decoder ended without
\* UnableToCheatError its output is the result and the scanner has not run.
C7_DispatchStateMachine ==
    /\ path \in DispatchPaths
    /\ nStructured <= 1 /\ nHeuristic <= 1
    /\ (nStructured = 1 /\ pc # "TryStructured" /\ structExc # "UnableToCheatError")
           => /\ Done
              /\ nHeuristic = 0
              /\ out = StructuredCall(asset, game, is_mlvl).recs
              /\ calls = StructuredCall(asset, game, is_mlvl).calls
    /\ (nHeuristic = 1 /\ Registered) => structExc = "UnableToCheatError"

C7_Witness ==
    /\ Done /\ nStructured = 1 /\ structExc = "none"
    /\ Len(out) >= 2
    /\ path = <<"Start", "TryStructured", "Done">>

----------------------------------------------------------------------------
(* Properties of the ANCS decoder *)

AncsRan(op) == ancs.pc = "Done" /\ ancs.op = op

NumCharacters == Len(ancs.raw.character_set.characters)

\* the character a player actor is read from: index 5 for PRIME, 3 otherwise
PlayerIndex == IF game = "PRIME" THEN 5 ELSE 3

PlayerCharacter == ancs.raw.character_set.characters[PlayerIndex + 1]

\* what char_dependencies_for yields for the designated character, followed
\* by what non_char_dependencies_for yields
PlayerExpected ==
    YieldFrom(CharDependenciesFor(PlayerCharacter, ancs.none_raises),
              NonCharDependenciesFor(ancs.raw, ancs.none_raises))

AllExpected == DependenciesFor(ancs.raw, ancs.none_raises)

SameRun(expected) ==
    /\ ancs.out = expected.recs
    /\ ancs.calls = expected.calls
    /\ ancs.err = expected.exc

\* C8 as stated: mlvl_dependencies_for(is_player_actor=True) on a character
\* set of N characters reads exactly the character at index 5 (PRIME) or 3
\* (other games) and yields its dependencies followed by the shared
\* animation-set dependencies, whatever N is; with is_player_actor=False it
\* yields what dependencies_for yields.
C8_PlayerActorAlwaysReadsOneCharacter ==
    AncsRan("mlvl_dependencies_for")
        => IF ancs.is_player_actor
           THEN ancs.visited = <<PlayerIndex>> /\ SameRun(PlayerExpected)
           ELSE SameRun(AllExpected)

\* C8 amended: when the character set holds more than 5 (PRIME) or 3 (other
\* games) characters, mlvl_dependencies_for(is_player_actor=True) reads only
\* the character at that index and yields its dependencies followed by the
\* shared animation-set dependencies; on a smaller character set it raises
\* IndexError before reading or yielding anything; with
\* is_player_actor=False it yields what dependencies_for yields, reading the
\* characters in index order.
C8_PlayerActorReadsDesignatedCharacter ==
    AncsRan("mlvl_dependencies_for")
        => IF ~ancs.is_player_actor
           THEN /\ SameRun(AllExpected)
                /\ ancs.visited = SubSeq(OffsetsUpTo(NumCharacters - 1), 1, Len(ancs.visited))
                /\ (ancs.err = "none" => Len(ancs.visited) = NumCharacters)
           ELSE IF NumCharacters > PlayerIndex
           THEN ancs.visited = <<PlayerIndex>> /\ SameRun(PlayerExpected)
           ELSE /\ ancs.err = "IndexError"
                /\ ancs.out = <<>> /\ ancs.calls = <<>> /\ ancs.visited = <<>>

C8_Witness ==
    /\ AncsRan("mlvl_dependencies_for") /\ ancs.is_player_actor
    /\ game = "ECHOES" /\ NumCharacters > 5
    /\ ancs.visited = <<3>>
    /\ ancs.err = "none"
    /\ Len(ancs.out) > 7

\* the identifiers of a character that are present, in field order
PresentIds(character) ==
    SelectSeq(CharacterIds(character), LAMBDA id : id # None)
    \o character.particle_resource_data.generic_particles.items
    \o character.particle_resource_data.swoosh_particles.items
    \o character.particle_resource_data.electric_particles.items
    \o character.particle_resource_data.spawn_particles.items

RECURSIVE CallsOf(_)
CallsOf(ids) ==
    IF ids = <<>> THEN <<>> ELSE <<Call(Head(ids), FALSE, FALSE)>> \o CallsOf(Tail(ids))

AllKnown(ids) == \A k \in 1..Len(ids) : ids[k] \in DOMAIN KnownAssets

\* C9: char_dependencies_for looks up the present identifiers of a
\* character (model, skin, skeleton, the version-gated ones that are there
\* and the particle identifiers) once each in field order, and performs no
\* lookup for a version-gated identifier that is absent.
C9_AbsentIdsAreNotLookedUp ==
    (/\ AncsRan("mlvl_dependencies_for") /\ ancs.is_player_actor
     /\ NumCharacters > PlayerIndex
     /\ AllKnown(PresentIds(PlayerCharacter)))
        => /\ Len(ancs.calls) >= Len(PresentIds(PlayerCharacter))
           /\ SubSeq(ancs.calls, 1, Len(PresentIds(PlayerCharacter)))
                  = CallsOf(PresentIds(PlayerCharacter))

AnimSet == ancs.raw.animation_set

\* C10: in a decoded animation set the additive block is present iff
\* table_count >= 2 and the half-transition list is present iff
\* table_count >= 3, for every target game; an absent block is absent
\* rather than empty and moves the cursor by no byte.
C10_TableCountGatesBlocks ==
    ancs.raw.ok
        => /\ AnimSet.additive.present <=> AnimSet.table_count >= 2
           /\ AnimSet.half_transitions.present <=> AnimSet.table_count >= 3
           /\ ~AnimSet.additive.present
                  => /\ AnimSet.additive = Absent
                     /\ AnimSet.cursor.after_additive = AnimSet.cursor.before_additive
           /\ ~AnimSet.half_transitions.present
                  => /\ AnimSet.half_transitions = Absent
                     /\ AnimSet.cursor.after_half_transitions = AnimSet.cursor.after_additive
           /\ AnimSet.additive.present
                  => AnimSet.cursor.after_additive > AnimSet.cursor.before_additive
           /\ AnimSet.half_transitions.present
                  => AnimSet.cursor.after_half_transitions > AnimSet.cursor.after_additive

C10_Witness ==
    /\ ancs.pc = "Parsed" /\ game = "ECHOES"
    /\ AnimSet.table_count = 2
    /\ AnimSet.additive = Present(<< <<5>> >>)
    /\ AnimSet.half_transitions = Absent
    /\ AnimSet.cursor.after_half_transitions = AnimSet.cursor.after_additive

----------------------------------------------------------------------------
(* Properties of the file tree *)

NumEntries == Len(disc.fst.file_entries)

EntryAt(i) == disc.fst.file_entries[i + 1]

NameOf(i) == CString(disc.fst.names, EntryAt(i).file_name).val

TreeBuilt == disc.pc \in {"Built", "Listed"}

\* every directory ends after its own index and inside the table, and a
\* directory that starts inside another one ends inside it
WellFormed ==
    \A d \in 1..(NumEntries - 1) :
        EntryAt(d).is_directory
            => /\ d < EntryAt(d).param /\ EntryAt(d).param <= NumEntries
               /\ \A e \in (d + 1)..(EntryAt(d).param - 1) :
                      EntryAt(e).is_directory => EntryAt(e).param <= EntryAt(d).param

Encloses(d, i) == EntryAt(d).is_directory /\ d < i /\ i < EntryAt(d).param

\* the innermost directory that encloses entry i, 0 (the root) if none does
Innermost(i) ==
    IF \E d \in 1..(i - 1) : Encloses(d, i)
    THEN CHOOSE d \in 1..(i - 1) :
             Encloses(d, i) /\ \A e \in (d + 1)..(i - 1) : ~Encloses(e, i)
    ELSE 0

\* what entry i is stored as
ItemOf(i) ==
    IF EntryAt(i).is_directory THEN DirItem(NameOf(i), i)
    ELSE FileItem(NameOf(i), EntryAt(i).offset, EntryAt(i).param)

\* the places (dict, position) at which entry i is stored
SlotsOf(i) ==
    {<<id, k>> \in (0..(NumEntries - 1)) \X (1..NumEntries) :
         k <= Len(disc.dicts[id + 1]) /\ disc.dicts[id + 1][k] = ItemOf(i)}

RECURSIVE ExpectedPath(_)
ExpectedPath(i) ==
    IF i = 0 THEN <<>> ELSE JoinPath(ExpectedPath(Innermost(i)), NameOf(i))

FileIndexes == {i \in 1..(NumEntries - 1) : ~EntryAt(i).is_directory}

Placed ==
    /\ \A i \in 1..(NumEntries - 1) :
           /\ \E k \in 1..Len(disc.dicts[Innermost(i) + 1]) :
                  disc.dicts[Innermost(i) + 1][k] = ItemOf(i)
           /\ Cardinality(SlotsOf(i)) = 1
    /\ disc.pc = "Listed"
           => /\ Len(disc.files) = Cardinality(FileIndexes)
              /\ \A i \in FileIndexes :
                     \E k \in 1..Len(disc.files) : disc.files[k] = ExpectedPath(i)

\* no two entries of one directory have the same name
UniqueSiblingNames ==
    \A i, j \in 1..(NumEntries - 1) :
        (i # j /\ Innermost(i) = Innermost(j)) => NameOf(i) # NameOf(j)

\* C11 as stated: for a well-formed table decode_into_file_tree stores
\* every entry i >= 1 in the dict of the innermost directory that encloses
\* it (the root dict if none), also for empty directories and nested
\* directories that end at the same index, and every file appears exactly
\* once with its own offset and size.
C11_EveryEntryPlaced == (TreeBuilt /\ WellFormed) => Placed

\* C11 amended: the same, for a well-formed table in which no two entries of
\* the same directory share a name (the tree is a dict keyed by name, so of
\* two entries of one directory with the same name only the later is kept).
C11_EveryEntryPlacedUnderUniqueNames ==
    (TreeBuilt /\ WellFormed /\ UniqueSiblingNames) => Placed

C11_Witness ==
    /\ disc.pc = "Listed" /\ WellFormed /\ UniqueSiblingNames
    /\ NumEntries = 5
    /\ EntryAt(1).is_directory /\ EntryAt(1).param = 4
    /\ EntryAt(2).is_directory /\ EntryAt(2).param = 4
    /\ ~EntryAt(3).is_directory /\ Innermost(3) = 2
    /\ ~EntryAt(4).is_directory /\ Innermost(4) = 0
    /\ Len(disc.files) = 2

====
